---- MODULE Spec2Model ----
(***************************************************************************)
(* Model of scripts/convert_systems_to_services/convert_systems_to_services.py *)
(* A single-threaded command-line run: main() reads one menu choice and    *)
(* runs one flow against the OpsLevel GraphQL endpoint.  The endpoint, the *)
(* file system and the console are the environment.                        *)
(***************************************************************************)
EXTENDS Integers, Sequences, FiniteSets, TLC

VARIABLES
    catalog,          \* server: the source entities, in server order
    page_size,        \* server: number of nodes per page
    created,          \* server: entities created by accepted mutations, in order
    files,            \* file system: filename -> content written by save_to_file
    rerun,            \* TRUE once the script has been started a second time
    first_run,        \* the first run: its choice, exc, mutations and the files it left
    pc,               \* position of the process
    choice,           \* the string read by main's input()
    invoked,          \* the flow functions main has called, in order
    end_cursor,       \* local of the pagination loop
    has_next_page,    \* local of the pagination loop
    data,             \* systems_data / domains_data accumulator
    result,           \* local of the pagination loop: the last page received
    pending,          \* nodes of the current page not yet converted
    requests,         \* requests.post calls of this run: [query, variables]
    replies,          \* the HTTP responses of this run, replies[i] answers requests[i]
    output,           \* lines printed (and prompts shown) in this run
    exc,              \* uncaught exception that ended the run, or "none"
    call              \* the last converter call: arguments, variables, return

vars == <<catalog, page_size, created, files, rerun, first_run, pc, choice,
          invoked, end_cursor, has_next_page, data, result, pending, requests,
          replies, output, exc, call>>

----------------------------------------------------------------------------
(* Bounds of the model *)

MaxCatalog == 3       \* most entities the server holds
MaxPageSize == 2      \* largest server page size

(* Program constant *)
HTTP_OK == 200

----------------------------------------------------------------------------
(* Python / JSON values, tagged by type *)

None == [py |-> "NoneType"]
Str(s) == [py |-> "str", s |-> s]
Bool(b) == [py |-> "bool", b |-> b]
List(l) == [py |-> "list", l |-> l]
Dict(d) == [py |-> "dict", d |-> d]
\* an opaque cursor string, which names offset k to the server
Cursor(k) == [py |-> "str", s |-> "cursor-" \o ToString(k), at |-> k]
\* what response.json() finds in a body it cannot parse
NotJson == [py |-> "not-json"]

Truthy(v) ==
    CASE v.py = "NoneType" -> FALSE
      [] v.py = "bool"     -> v.b
      [] v.py = "str"      -> v # Str("")
      [] v.py = "list"     -> v.l # <<>>
      [] v.py = "dict"     -> DOMAIN v.d # {}
      [] OTHER             -> TRUE

Ok(v) == [raised |-> "none", value |-> v]
Raise(e) == [raised |-> e, value |-> None]

\* v[k]
Subscript(v, k) ==
    IF v.py = "dict"
    THEN IF k \in DOMAIN v.d THEN Ok(v.d[k]) ELSE Raise("KeyError")
    ELSE Raise("TypeError")

\* v[k1][k2]...
RECURSIVE Path(_, _)
Path(v, keys) ==
    IF keys = <<>> THEN Ok(v)
    ELSE LET r == Subscript(v, Head(keys))
         IN IF r.raised # "none" THEN r ELSE Path(r.value, Tail(keys))

\* d.get(k, default)
Get(d, k, default) == IF k \in DOMAIN d.d THEN d.d[k] ELSE default

\* A printed line is kept as the arguments of its print call: the literal text
\* and, for an f-string, the values formatted into it, each in its place (the
\* console shows str() of each value).

----------------------------------------------------------------------------
(* The entities the server may hold *)

Payments == Dict([name |-> Str("Payments"), description |-> Str("d"),
                  owner |-> Dict([id |-> Str("T1")]), note |-> Str("n")])
Checkout == Dict([name |-> Str("Checkout")])
Search   == Dict([name |-> Str("Search"), description |-> None,
                  owner |-> None, note |-> None])

Entities == {Payments, Checkout, Search}

RECURSIVE SeqsUpTo(_, _)
SeqsUpTo(S, n) ==
    IF n = 0 THEN {<<>>}
    ELSE LET shorter == SeqsUpTo(S, n - 1)
         IN shorter \cup {Append(s, x) : s \in {t \in shorter : Len(t) = n - 1}, x \in S}

Min(a, b) == IF a < b THEN a ELSE b

----------------------------------------------------------------------------
(* The GraphQL documents, by the name of the constant that holds them *)

OL_DOMAINS_QUERY == "OL_DOMAINS_QUERY"
OL_SYSTEMS_QUERY == "OL_SYSTEMS_QUERY"
OL_SYSTEM_MUTATION == "OL_SYSTEM_MUTATION"
OL_SERVICE_MUTATION == "OL_SERVICE_MUTATION"

\* the collection a query document selects under data.account
Collection(query) == IF query = OL_SYSTEMS_QUERY THEN "systems" ELSE "domains"

\* the payload field a mutation document selects under data
Payload(query) ==
    IF query = OL_SYSTEM_MUTATION THEN [field |-> "systemCreate", entity |-> "system"]
    ELSE [field |-> "serviceCreate", entity |-> "service"]

----------------------------------------------------------------------------
(* The server: cursor pagination over `catalog`, and the HTTP responses    *)
(* requests.post may hand back                                             *)

\* A response has two independent sides: whether its bytes are UTF-8 text,
\* which is what content.decode() needs, and the value json() parses from them
\* (json() detects the encoding, so UTF-16 or UTF-32 JSON parses as well), or
\* NotJson when they hold no JSON document.
Response(status, utf8, json) ==
    [raised |-> "none", status_code |-> status, utf8 |-> utf8, json |-> json]

\* response.content.decode(): the text of the body, named by what it holds
Decoded(response) == [py |-> "str", text_of |-> response.json]

\* requests.post raising instead of returning a response
ConnectionFailed == [raised |-> "ConnectionError"]

Offset(cursor) == IF "at" \in DOMAIN cursor THEN cursor.at ELSE 0

\* the page the server returns for `after: cursor`
ServerPage(cursor) ==
    LET from  == Offset(cursor)
        to    == Min(from + page_size, Len(catalog))
        nodes == SubSeq(catalog, from + 1, to)
    IN [nodes       |-> nodes,
        endCursor   |-> IF nodes = <<>> THEN None ELSE Cursor(to),
        hasNextPage |-> to < Len(catalog)]

PageBody(query, page) ==
    Dict([data |-> Dict([account |-> Dict(
        [k \in {Collection(query)} |-> Dict(
            [nodes    |-> List(page.nodes),
             pageInfo |-> Dict([endCursor   |-> page.endCursor,
                                hasNextPage |-> Bool(page.hasNextPage)])])])])])

\* a page whose pageInfo selection is missing
NoPageInfoBody(query, page) ==
    Dict([data |-> Dict([account |-> Dict(
        [k \in {Collection(query)} |-> Dict([nodes |-> List(page.nodes)])])])])

\* a page whose pageInfo has the cursor and no hasNextPage
NoHasNextPageBody(query, page) ==
    Dict([data |-> Dict([account |-> Dict(
        [k \in {Collection(query)} |-> Dict(
            [nodes    |-> List(page.nodes),
             pageInfo |-> Dict([endCursor |-> page.endCursor])])])])])

\* a GraphQL-level failure: HTTP 200, an errors list and no data
ErrorsBody == Dict([errors |-> List(<<Str("error")>>)])

PageReplies(query, cursor) ==
    LET page == ServerPage(cursor)
    IN { Response(200, TRUE, PageBody(query, page)),
         Response(201, TRUE, PageBody(query, page)),
         Response(200, TRUE, NoPageInfoBody(query, page)),
         Response(200, TRUE, NoHasNextPageBody(query, page)),
         Response(200, TRUE, ErrorsBody),
         Response(200, FALSE, ErrorsBody),
         Response(200, TRUE, NotJson),
         Response(200, FALSE, NotJson),
         Response(500, TRUE, NotJson),
         Response(500, FALSE, NotJson),
         Response(500, FALSE, ErrorsBody),
         ConnectionFailed }

NewId == Str("id-" \o ToString(Len(created) + 1))

CreatedBody(query, variables) ==
    Dict([data |-> Dict(
        [f \in {Payload(query).field} |-> Dict(
            [e \in {Payload(query).entity} |-> Dict([id |-> NewId])])])])

\* validation errors: the payload is null and an errors list is attached
RejectedBody(query) ==
    Dict([data   |-> Dict([f \in {Payload(query).field} |-> None]),
          errors |-> List(<<Str("invalid")>>)])

\* The answers to a creation mutation.  A body that is no UTF-8 text (UTF-16,
\* say) may still hold a JSON document, which json() parses all the same.
MutationReplies(query, variables) ==
    { Response(200, TRUE, CreatedBody(query, variables)),
      Response(201, TRUE, CreatedBody(query, variables)),
      Response(200, TRUE, RejectedBody(query)),
      Response(200, FALSE, RejectedBody(query)),
      Response(200, TRUE, ErrorsBody),
      Response(200, TRUE, NotJson),
      Response(500, TRUE, NotJson),
      Response(500, FALSE, NotJson),
      Response(500, FALSE, ErrorsBody),
      ConnectionFailed }

\* the server created an entity iff its answer carries the new entity's id
Accepted(query, reply) ==
    /\ reply.raised = "none"
    /\ reply.json # NotJson
    /\ Path(reply.json, <<"data", Payload(query).field, Payload(query).entity, "id">>).raised
           = "none"

----------------------------------------------------------------------------
(* opslevel_graphql_query, applied to the outcome of requests.post *)

\* variant: only 4xx/5xx statuses count as failures
TransportFailedFrom400(status_code) == status_code >= 400

TransportFailed(status_code) == status_code # HTTP_OK

\* Line 190: an exception of requests.post propagates.  Line 192 builds the
\* message from response.content.decode() before it raises, so a failure
\* status with bytes that are no UTF-8 text raises UnicodeDecodeError.  Line
\* 193 returns what response.json() parses, whatever the body's encoding.
opslevel_graphql_query(response) ==
    IF response.raised # "none"
    THEN [raised |-> response.raised, value |-> None, message |-> <<>>]
    ELSE IF TransportFailed(response.status_code)
    THEN IF ~response.utf8
         THEN [raised |-> "UnicodeDecodeError", value |-> None, message |-> <<>>]
         ELSE [raised |-> "Exception", value |-> None,
               message |-> <<"OpsLevel request failed: ", Decoded(response)>>]
    ELSE IF response.json = NotJson
    THEN [raised |-> "JSONDecodeError", value |-> None, message |-> <<>>]
    ELSE [raised |-> "none", value |-> response.json, message |-> <<>>]

----------------------------------------------------------------------------
(* The converters' variables *)

\* lines 226-229 / 287-290: the owner's id when the owner is truthy
OwnerId(entity) ==
    IF Truthy(Get(entity, "owner", Str("")))
    THEN Path(entity, <<"owner", "id">>)
    ELSE Ok(None)

ServiceAlias(name) ==
    IF name.py = "str" THEN Ok(Str("SEARCH-" \o name.s)) ELSE Raise("TypeError")

\* variant: the owner input is always built as an object
ServiceVariablesOwnerObject(system) ==
    LET owner == OwnerId(system)
        name  == Subscript(system, "name")
    IN IF owner.raised # "none" THEN owner
       ELSE IF name.raised # "none" THEN name
       ELSE IF ServiceAlias(name.value).raised # "none" THEN ServiceAlias(name.value)
       ELSE Ok(Dict([alias       |-> ServiceAlias(name.value).value,
                     description |-> Get(system, "description", Str("")),
                     ownerInput  |-> Dict([id |-> owner.value])]))

\* create_service, lines 226-236
ServiceVariables(system) ==
    LET owner == OwnerId(system)
        name  == Subscript(system, "name")
    IN IF owner.raised # "none" THEN owner
       ELSE IF name.raised # "none" THEN name
       ELSE IF ServiceAlias(name.value).raised # "none" THEN ServiceAlias(name.value)
       ELSE Ok(Dict([alias       |-> ServiceAlias(name.value).value,
                     description |-> Get(system, "description", Str("")),
                     ownerInput  |-> IF Truthy(Get(system, "owner", Str("")))
                                     THEN Dict([id |-> owner.value])
                                     ELSE None]))

\* variant: the note is not carried over
SystemVariablesNoNote(domain) ==
    LET owner == OwnerId(domain)
        name  == Subscript(domain, "name")
    IN IF owner.raised # "none" THEN owner
       ELSE IF name.raised # "none" THEN name
       ELSE Ok(Dict([alias       |-> name.value,
                     description |-> Get(domain, "description", Str("")),
                     ownerId     |-> owner.value,
                     note        |-> Str("")]))

\* convert_domain_to_system, lines 287-297
SystemVariables(domain) ==
    LET owner == OwnerId(domain)
        name  == Subscript(domain, "name")
    IN IF owner.raised # "none" THEN owner
       ELSE IF name.raised # "none" THEN name
       ELSE Ok(Dict([alias       |-> name.value,
                     description |-> Get(domain, "description", Str("")),
                     ownerId     |-> owner.value,
                     note        |-> Get(domain, "note", Str(""))]))

\* variant: a missing id is read as None instead of raising
SystemIdOrNone(result_) ==
    LET r == Path(result_, <<"data", "systemCreate", "system", "id">>)
    IN IF r.raised # "none" THEN Ok(None) ELSE r

\* line 301: result['data']['systemCreate']['system']['id']
SystemId(result_) == Path(result_, <<"data", "systemCreate", "system", "id">>)

\* create_service(system), the server answering the mutation with `reply`
create_service(system, reply) ==
    LET v == ServiceVariables(system)
        r == opslevel_graphql_query(reply)
    IN IF v.raised # "none"
       THEN [fn |-> "create_service", arg |-> system, sent |-> FALSE, reply |-> reply,
             variables |-> None, raised |-> v.raised, printed |-> <<>>,
             returned |-> None]
       ELSE [fn |-> "create_service", arg |-> system, sent |-> TRUE, reply |-> reply,
             variables |-> v.value, raised |-> r.raised, printed |-> <<>>,
             returned |-> None]

\* convert_domain_to_system(domain), the server answering with `reply`
convert_domain_to_system(domain, reply) ==
    LET v   == SystemVariables(domain)
        r   == opslevel_graphql_query(reply)
        sid == SystemId(r.value)
        nm  == Subscript(domain, "name").value
    IN IF v.raised # "none"
       THEN [fn |-> "convert_domain_to_system", arg |-> domain, sent |-> FALSE, reply |-> reply,
             variables |-> None, raised |-> v.raised, printed |-> <<>>,
             returned |-> None]
       ELSE IF r.raised # "none"
       THEN [fn |-> "convert_domain_to_system", arg |-> domain, sent |-> TRUE, reply |-> reply,
             variables |-> v.value, raised |-> r.raised, printed |-> <<>>,
             returned |-> None]
       ELSE IF sid.raised # "none"
       THEN [fn |-> "convert_domain_to_system", arg |-> domain, sent |-> TRUE, reply |-> reply,
             variables |-> v.value, raised |-> sid.raised,
             printed |-> << <<"RESULT,", r.value>> >>,
             returned |-> None]
       ELSE [fn |-> "convert_domain_to_system", arg |-> domain, sent |-> TRUE, reply |-> reply,
             variables |-> v.value, raised |-> "none",
             printed |-> << <<"RESULT,", r.value>>,
                            <<"Domain ", nm, " converted to system with ID ",
                              sid.value>> >>,
             returned |-> None]

----------------------------------------------------------------------------
(* Pagination *)

\* variant: the cursor is never sent
PageVariablesNoCursor(cursor) == Dict([endCursor |-> None])

\* variables = {"endCursor": end_cursor}
PageVariables(cursor) == Dict([endCursor |-> cursor])

\* result['data']['account'][<collection>]['nodes'], then iterated by extend
\* or by the for loop: a list gives its items, null and booleans are not
\* iterable (GraphQL sends a list or null here)
PageNodes(query, res) ==
    LET r == Path(res, <<"data", "account", Collection(query), "nodes">>)
    IN IF r.raised = "none" /\ r.value.py \in {"NoneType", "bool"}
       THEN Raise("TypeError")
       ELSE r

\* the tail of a loop iteration: page_info, end_cursor, has_next_page, one
\* statement after the other; cursor_read says the assignment of end_cursor
\* was reached and done before anything raised
PageInfo(query, res) ==
    LET info == Path(res, <<"data", "account", Collection(query), "pageInfo">>)
        ec   == Subscript(info.value, "endCursor")
        hn   == Subscript(info.value, "hasNextPage")
    IN IF info.raised # "none"
       THEN [raised |-> info.raised, cursor_read |-> FALSE,
             end_cursor |-> None, has_next_page |-> None]
       ELSE IF ec.raised # "none"
       THEN [raised |-> ec.raised, cursor_read |-> FALSE,
             end_cursor |-> None, has_next_page |-> None]
       ELSE IF hn.raised # "none"
       THEN [raised |-> hn.raised, cursor_read |-> TRUE,
             end_cursor |-> ec.value, has_next_page |-> None]
       ELSE [raised |-> "none", cursor_read |-> TRUE,
             end_cursor |-> ec.value, has_next_page |-> hn.value]

\* variant: the new page is put in front of the accumulator
extendFront(acc, nodes) == nodes \o acc

\* systems_data.extend(systems)
extend(acc, nodes) == acc \o nodes

----------------------------------------------------------------------------
(* Snapshot files *)

Dates == {"20261030", "20261031"}        \* datetime.now().strftime('%Y%m%d')

SnapshotName(kind, date) == kind \o "_data_" \o date \o ".json"

\* save_to_file: open(filename, 'w') and json.dump
save_to_file(fs, filename, records) ==
    [f \in DOMAIN fs \cup {filename} |-> IF f = filename THEN List(records) ELSE fs[f]]

\* variant: the save sits inside the loop
FilesSavedEachIteration(fs, filename, records, more) ==
    save_to_file(fs, filename, records)

\* the files after one iteration of a fetch loop that leaves has_next_page = more
FilesAfterIteration(fs, filename, records, more) ==
    IF Truthy(more) THEN fs ELSE save_to_file(fs, filename, records)

----------------------------------------------------------------------------
(* main *)

Choices == {"1", "2", "3", "4", "5", "6", ""}

Paths == {"domains_data_20261030.json", "missing.json"}

MenuLines ==
    << <<"Select an option:">>,
       <<"1. Fetch systems and write to a file.">>,
       <<"2. Convert systems to services.">>,
       <<"3. Fetch domains and write to a file.">>,
       <<"4. Convert domains to systems.">>,
       <<"Enter your choice (1/2/3/4): ">> >>

InvalidChoice == <<"Invalid choice. Please enter 1, 2, 3, 4, or 5.">>

\* variant: anything else falls through to the first option
DispatchDefaultFirst(c) ==
    CASE c = "1" -> "fetch_and_save_systems"
      [] c = "2" -> "convert_systems_to_services"
      [] c = "3" -> "fetch_and_save_domains"
      [] c = "4" -> "convert_domains_to_systems"
      [] c = "5" -> "update_systems_with_services"
      [] OTHER   -> "fetch_and_save_systems"

\* the if/elif chain of main: the function called for a choice
Dispatch(c) ==
    CASE c = "1" -> "fetch_and_save_systems"
      [] c = "2" -> "convert_systems_to_services"
      [] c = "3" -> "fetch_and_save_domains"
      [] c = "4" -> "convert_domains_to_systems"
      [] c = "5" -> "update_systems_with_services"
      [] OTHER   -> "none"

FetchFlows == {"fetch_and_save_systems", "fetch_and_save_domains"}
ConvertFlows == {"convert_systems_to_services", "convert_domains_to_systems"}

Flow == IF invoked = <<>> THEN "none" ELSE invoked[Len(invoked)]

\* the query document each paginating function sends
FlowQuery(fn) ==
    IF fn \in {"fetch_and_save_systems", "convert_systems_to_services"}
    THEN OL_SYSTEMS_QUERY ELSE OL_DOMAINS_QUERY

\* the mutation document each converting function sends
FlowMutation(fn) ==
    IF fn = "convert_systems_to_services" THEN OL_SERVICE_MUTATION
    ELSE OL_SYSTEM_MUTATION

NoCall == [fn |-> "none"]

Init ==
    /\ catalog \in {c \in SeqsUpTo(Entities, MaxCatalog) :
                        \A i, j \in 1..Len(c) : c[i] = c[j] => i = j}
    /\ page_size \in 1..MaxPageSize
    /\ created = <<>>
    /\ files = <<>>
    /\ rerun = FALSE
    /\ first_run = [choice |-> "", exc |-> "none", mutations |-> <<>>, files |-> <<>>]
    /\ pc = "start"
    /\ choice = ""
    /\ invoked = <<>>
    /\ end_cursor = None
    /\ has_next_page = Bool(TRUE)
    /\ data = <<>>
    /\ result = None
    /\ pending = <<>>
    /\ requests = <<>>
    /\ replies = <<>>
    /\ output = <<>>
    /\ exc = "none"
    /\ call = NoCall

\* main(): print the menu, read the choice, call the chosen function, whose
\* first lines initialise the pagination locals
main(c) ==
    /\ pc = "start"
    /\ choice' = c
    /\ LET fn == Dispatch(c)
       IN /\ output' = output \o MenuLines
                       \o (IF fn = "none" THEN <<InvalidChoice>> ELSE <<>>)
          /\ invoked' = IF fn = "none" THEN invoked ELSE Append(invoked, fn)
          /\ pc' = CASE fn \in FetchFlows \cup ConvertFlows -> "loop"
                     [] fn = "update_systems_with_services"  -> "update"
                     [] OTHER                                 -> "exit"
    /\ end_cursor' = None
    /\ has_next_page' = Bool(TRUE)
    /\ data' = <<>>
    /\ UNCHANGED <<catalog, page_size, created, files, rerun, first_run, result,
                   pending, requests, replies, exc, call>>

\* one iteration of the while loop of fetch_and_save_systems / _domains, and
\* the save that follows the loop when the iteration leaves has_next_page false
fetch_page(date) ==
    /\ pc = "loop"
    /\ Flow \in FetchFlows
    /\ Truthy(has_next_page)
    /\ \E reply \in PageReplies(FlowQuery(Flow), end_cursor) :
       LET q     == FlowQuery(Flow)
           kind  == Collection(q)
           fname == SnapshotName(kind, date)
           r     == opslevel_graphql_query(reply)
           nodes == PageNodes(q, r.value)
           acc   == extend(data, nodes.value.l)
           info  == PageInfo(q, r.value)
       IN /\ requests' = Append(requests, [query |-> q, variables |-> PageVariables(end_cursor)])
          /\ replies' = Append(replies, reply)
          /\ result' = IF r.raised = "none" THEN r.value ELSE result
          /\ IF r.raised # "none" \/ nodes.raised # "none"
             THEN /\ exc' = IF r.raised # "none" THEN r.raised ELSE nodes.raised
                  /\ pc' = "exit"
                  /\ UNCHANGED <<data, end_cursor, has_next_page, files, output>>
             ELSE IF info.raised # "none"
             THEN /\ exc' = info.raised
                  /\ pc' = "exit"
                  /\ data' = acc
                  /\ end_cursor' = IF info.cursor_read THEN info.end_cursor
                                   ELSE end_cursor
                  /\ UNCHANGED <<has_next_page, files, output>>
             ELSE /\ data' = acc
                  /\ end_cursor' = info.end_cursor
                  /\ has_next_page' = info.has_next_page
                  /\ files' = FilesAfterIteration(files, fname, acc, info.has_next_page)
                  /\ output' = IF Truthy(info.has_next_page) THEN output
                               ELSE Append(output,
                                      <<(IF kind = "systems" THEN "Systems" ELSE "Domains")
                                        \o " data saved to " \o fname>>)
                  /\ pc' = IF Truthy(info.has_next_page) THEN "loop" ELSE "exit"
                  /\ exc' = "none"
    /\ UNCHANGED <<catalog, page_size, created, rerun, first_run, choice, invoked,
                   pending, call>>

\* the end of a loop iteration of a convert function: lines 256-258 / 320-322
LoopTail(q, res) ==
    LET info == PageInfo(q, res)
    IN IF info.raised # "none"
       THEN /\ exc' = info.raised
            /\ pc' = "exit"
            /\ end_cursor' = IF info.cursor_read THEN info.end_cursor ELSE end_cursor
            /\ UNCHANGED has_next_page
       ELSE /\ exc' = "none"
            /\ end_cursor' = info.end_cursor
            /\ has_next_page' = info.has_next_page
            /\ pc' = IF Truthy(info.has_next_page) THEN "loop" ELSE "exit"

\* the head of a loop iteration of convert_systems_to_services /
\* convert_domains_to_systems: request a page and start its for loop
request_page ==
    /\ pc = "loop"
    /\ Flow \in ConvertFlows
    /\ Truthy(has_next_page)
    /\ \E reply \in PageReplies(FlowQuery(Flow), end_cursor) :
       LET q     == FlowQuery(Flow)
           r     == opslevel_graphql_query(reply)
           nodes == PageNodes(q, r.value)
       IN /\ requests' = Append(requests, [query |-> q, variables |-> PageVariables(end_cursor)])
          /\ replies' = Append(replies, reply)
          /\ result' = IF r.raised = "none" THEN r.value ELSE result
          /\ IF r.raised # "none" \/ nodes.raised # "none"
             THEN /\ exc' = IF r.raised # "none" THEN r.raised ELSE nodes.raised
                  /\ pc' = "exit"
                  /\ UNCHANGED <<pending, end_cursor, has_next_page>>
             ELSE IF nodes.value.l = <<>>
             THEN /\ pending' = <<>>
                  /\ LoopTail(q, r.value)
             ELSE /\ pending' = nodes.value.l
                  /\ pc' = "records"
                  /\ UNCHANGED <<exc, end_cursor, has_next_page>>
    /\ UNCHANGED <<catalog, page_size, created, files, rerun, first_run, choice,
                   invoked, data, output, call>>

\* the converter each convert function applies to a node
Converter(fn, entity, reply) ==
    IF fn = "convert_systems_to_services" THEN create_service(entity, reply)
    ELSE convert_domain_to_system(entity, reply)

ConverterVariables(fn, entity) ==
    IF fn = "convert_systems_to_services" THEN ServiceVariables(entity)
    ELSE SystemVariables(entity)

\* variant: the loop steps over every other node
RemainingSkipOne(nodes) == IF Len(nodes) > 1 THEN Tail(Tail(nodes)) ELSE <<>>

\* the nodes left to convert once the head of `nodes` is done
Remaining(nodes) == Tail(nodes)

\* one pass of the for loop: convert the next node of the page; after the
\* last node the iteration's tail runs
convert_record ==
    /\ pc = "records"
    /\ pending # <<>>
    /\ \E reply \in MutationReplies(FlowMutation(Flow),
                                    ConverterVariables(Flow, Head(pending)).value) :
       LET m  == FlowMutation(Flow)
           c  == Converter(Flow, Head(pending), reply)
       IN /\ call' = c
          /\ output' = output \o c.printed
          /\ requests' = IF c.sent
                         THEN Append(requests, [query |-> m, variables |-> c.variables])
                         ELSE requests
          /\ replies' = IF c.sent THEN Append(replies, reply) ELSE replies
          /\ created' = IF c.sent /\ Accepted(m, reply)
                        THEN Append(created, [mutation |-> m, input |-> c.variables,
                                              id |-> NewId])
                        ELSE created
          /\ IF c.raised # "none"
             THEN /\ exc' = c.raised
                  /\ pc' = "exit"
                  /\ UNCHANGED <<pending, end_cursor, has_next_page>>
             ELSE /\ pending' = Remaining(pending)
                  /\ IF Remaining(pending) = <<>>
                     THEN LoopTail(FlowQuery(Flow), result)
                     ELSE /\ pc' = "records"
                          /\ UNCHANGED <<exc, end_cursor, has_next_page>>
    /\ UNCHANGED <<catalog, page_size, files, rerun, first_run, choice, invoked,
                   data, result>>

\* load_domains_from_file is called on line 328 and defined nowhere: the
\* name lookup raises NameError before any file is opened
load_domains_from_file(path) == Raise("NameError")

\* update_systems_with_services up to its try/except.  Its loop (lines
\* 334-350) is never reached: no run gets past line 328.
update_systems_with_services(path) ==
    /\ pc = "update"
    /\ LET r == load_domains_from_file(path)
       IN /\ call' = [fn |-> "load_domains_from_file", arg |-> path,
                      raised |-> r.raised]
          /\ output' = output
                \o << <<"Please enter the path to the domains_data.json file: ">> >>
                \o (IF r.raised = "FileNotFoundError"
                    THEN << <<"File " \o path \o " not found. Please try again.">> >>
                    ELSE <<>>)
          /\ exc' = IF r.raised = "FileNotFoundError" THEN "none" ELSE r.raised
          /\ pc' = IF r.raised = "none" THEN "loop" ELSE "exit"
    /\ UNCHANGED <<catalog, page_size, created, files, rerun, first_run, choice,
                   invoked, end_cursor, has_next_page, data, result, pending,
                   requests, replies>>

Mutations(reqs) ==
    SelectSeq(reqs, LAMBDA q : q.query \in {OL_SERVICE_MUTATION, OL_SYSTEM_MUTATION})

\* after a run that ended normally the script is started again, against the
\* same server and file system
restart ==
    /\ pc = "exit"
    /\ exc = "none"
    /\ ~rerun
    /\ rerun' = TRUE
    /\ first_run' = [choice |-> choice, exc |-> exc, mutations |-> Mutations(requests),
                     files |-> files]
    /\ pc' = "start"
    /\ choice' = ""
    /\ invoked' = <<>>
    /\ end_cursor' = None
    /\ has_next_page' = Bool(TRUE)
    /\ data' = <<>>
    /\ result' = None
    /\ pending' = <<>>
    /\ requests' = <<>>
    /\ replies' = <<>>
    /\ output' = <<>>
    /\ exc' = "none"
    /\ call' = NoCall
    /\ UNCHANGED <<catalog, page_size, created, files>>

Next ==
    \/ \E c \in Choices : main(c)
    \/ \E date \in Dates : fetch_page(date)
    \/ request_page
    \/ convert_record
    \/ \E path \in Paths : update_systems_with_services(path)
    \/ restart

Spec == Init /\ [][Next]_vars

----------------------------------------------------------------------------
(* What the properties below speak about *)

\* request i of this run together with the response it got
Exchanges == [i \in 1..Len(requests) |-> [request |-> requests[i], reply |-> replies[i]]]

PageExchanges ==
    SelectSeq(Exchanges, LAMBDA x : x.request.query \in {OL_SYSTEMS_QUERY, OL_DOMAINS_QUERY})

\* a response came back for the request (requests.post did not raise)
Received(reply) == reply.raised = "none"

\* the JSON document a reply carries, NotJson when it carries none
Body(reply) == IF Received(reply) THEN reply.json ELSE NotJson

\* the pageInfo a page response carries
ReplyInfo(x) == PageInfo(x.request.query, Body(x.reply))

\* the response says hasNextPage = false
SaysLastPage(x) ==
    ReplyInfo(x).raised = "none" /\ ReplyInfo(x).has_next_page = Bool(FALSE)

\* the nodes of the page responses, concatenated in the order received
RECURSIVE ConcatNodes(_)
ConcatNodes(xs) ==
    IF xs = <<>> THEN <<>>
    ELSE PageNodes(Head(xs).request.query, Body(Head(xs).reply)).value.l
         \o ConcatNodes(Tail(xs))

\* the number of pages the server splits the catalog into
NumPages ==
    IF catalog = <<>> THEN 1 ELSE (Len(catalog) + page_size - 1) \div page_size

\* the files as the current run found them
FilesAtStart == IF rerun THEN first_run.files ELSE <<>>

EndedNormally == pc = "exit" /\ exc = "none"

HasOwner(entity) ==
    /\ "owner" \in DOMAIN entity.d
    /\ entity.d.owner \notin {None, Dict(<<>>), Str("")}

\* a record whose owner and texts are there and empty
Legacy == Dict([name |-> Str("Legacy"), description |-> Str(""),
                owner |-> Dict(<<>>), note |-> Str("")])

FieldOrEmpty(entity, k) == IF k \in DOMAIN entity.d THEN entity.d[k] ELSE Str("")

\* the creation mutation sent last in this run
LastMutation == Mutations(requests)[Len(Mutations(requests))]

LogsAligned == Len(requests) = Len(replies)

----------------------------------------------------------------------------
(* C1 *)

\* C1: when fetch_and_save_systems / fetch_and_save_domains ends normally, the
\* snapshot it reports holds exactly the nodes of the page responses,
\* concatenated in the order received, which is the server's catalog in server
\* order: nothing dropped, duplicated or reordered.
C1_SnapshotIsConcatenation ==
    (EndedNormally /\ Flow \in FetchFlows) =>
        \E d \in Dates :
            LET fname == SnapshotName(Collection(FlowQuery(Flow)), d)
            IN /\ output[Len(output)] =
                    <<(IF Flow = "fetch_and_save_systems" THEN "Systems" ELSE "Domains")
                      \o " data saved to " \o fname>>
               /\ fname \in DOMAIN files
               /\ files[fname] = List(ConcatNodes(PageExchanges))
               /\ files[fname] = List(catalog)

\* three records served as two pages (2 + 1) were saved
C1_Witness ==
    /\ EndedNormally
    /\ Flow = "fetch_and_save_domains"
    /\ Len(catalog) = 3 /\ page_size = 2
    /\ Len(PageExchanges) = 2
    /\ files[SnapshotName("domains", "20261030")] = List(catalog)

----------------------------------------------------------------------------
(* C2 *)

\* C2: in every pagination loop the first page request carries a null cursor,
\* the k-th carries the endCursor of the (k-1)-th response, no page request
\* follows a response with hasNextPage = false, that response is the server's
\* N-th page and the N-th request, and a loop that has ended normally issued
\* at least one request.
C2_PaginationRequests ==
    LET px == PageExchanges
    IN /\ LogsAligned
       /\ px # <<>> => px[1].request.variables = Dict([endCursor |-> None])
       /\ \A k \in 2..Len(px) :
            /\ ReplyInfo(px[k-1]).raised = "none"
            /\ ReplyInfo(px[k-1]).has_next_page = Bool(TRUE)
            /\ px[k].request.variables =
                   Dict([endCursor |-> ReplyInfo(px[k-1]).end_cursor])
       /\ \A k \in 1..Len(px) :
            SaysLastPage(px[k]) => (k = Len(px) /\ k = NumPages /\ pc # "loop")
       /\ (EndedNormally /\ Flow \in FetchFlows \cup ConvertFlows) =>
            (Len(px) >= 1 /\ Len(px) = NumPages /\ SaysLastPage(px[Len(px)]))

\* a loop that needed two requests, the second carrying the first's endCursor
C2_Witness ==
    /\ EndedNormally
    /\ Flow = "convert_domains_to_systems"
    /\ Len(PageExchanges) = 2
    /\ PageExchanges[2].request.variables = Dict([endCursor |-> Cursor(2)])
    /\ SaysLastPage(PageExchanges[2])

----------------------------------------------------------------------------
(* C3 *)

\* the run ended in error e, raised by the call that got reply i
EndedAt(i, e) == i = Len(replies) /\ pc = "exit" /\ exc = e

\* the run ended in the transport error of opslevel_graphql_query, raised for
\* response i
TransportErrorAt(i) == EndedAt(i, "Exception")

\* C3 as stated: the transport error is raised exactly for the responses whose
\* status is not a 2xx status.
C3_FailsExactlyOnNon2xx ==
    \A i \in 1..Len(replies) :
        Received(replies[i]) =>
            (TransportErrorAt(i) <=> ~(replies[i].status_code \in 200..299))

\* C3 amended: the call raises the transport error exactly for the responses
\* whose status is not 200 and whose body is UTF-8 text; a response whose
\* status is not 200 and whose body is no UTF-8 text raises
\* UnicodeDecodeError instead; a 200 response raises JSONDecodeError exactly
\* when its body holds no JSON document, and otherwise its parsed document is
\* what the caller gets, whatever the encoding of the body and also when the
\* document carries a GraphQL errors field; an error of requests.post itself
\* is raised exactly when no response came back.  Nothing catches any of
\* the four: each ends the run.
C3_FailsExactlyOnNon200 ==
    /\ \A i \in 1..Len(replies) :
         LET r == replies[i]
         IN /\ EndedAt(i, "ConnectionError") <=> ~Received(r)
            /\ TransportErrorAt(i) <=>
                   (Received(r) /\ r.status_code # 200 /\ r.utf8)
            /\ EndedAt(i, "UnicodeDecodeError") <=>
                   (Received(r) /\ r.status_code # 200 /\ ~r.utf8)
            /\ EndedAt(i, "JSONDecodeError") <=>
                   (Received(r) /\ r.status_code = 200 /\ r.json = NotJson)
            /\ (i < Len(replies) \/ pc # "exit" \/ exc \in {"none", "KeyError", "TypeError"})
                   <=> (Received(r) /\ r.status_code = 200 /\ r.json # NotJson)
    /\ (call.fn \in {"convert_domain_to_system", "create_service"} /\ call.sent
            /\ Received(call.reply) /\ call.reply.status_code = 200
            /\ call.reply.json # NotJson) =>
         /\ call.fn = "create_service" => call.raised = "none"
         /\ call.fn = "convert_domain_to_system" =>
              /\ call.printed[1] = <<"RESULT,", call.reply.json>>
              /\ \E i \in 1..Len(output) : output[i] = <<"RESULT,", call.reply.json>>
    /\ (pc = "records" /\ PageExchanges # <<>>) =>
         /\ Received(PageExchanges[Len(PageExchanges)].reply)
         /\ result = PageExchanges[Len(PageExchanges)].reply.json
    /\ \A k \in 1..Len(PageExchanges) :
         LET r == PageExchanges[k].reply
         IN (k = Len(PageExchanges) /\ Received(r) /\ r.status_code = 200
                /\ r.json # NotJson) => result = r.json

\* a 200 response with GraphQL errors whose body is no UTF-8 text did not end
\* the run, and the 201 response after it ended the run with the transport
\* error
C3_Witness ==
    /\ Len(replies) = 3
    /\ Received(replies[3]) /\ replies[3].status_code = 201
    /\ TransportErrorAt(3)
    /\ replies[2] = Response(200, FALSE, RejectedBody(OL_SERVICE_MUTATION))

----------------------------------------------------------------------------
(* C4 *)

\* the mutation variables C4 names for a domain
DomainVariablesAsStated(domain) ==
    Dict([alias       |-> domain.d.name,
          description |-> FieldOrEmpty(domain, "description"),
          ownerId     |-> IF HasOwner(domain) THEN domain.d.owner.d.id ELSE None,
          note        |-> FieldOrEmpty(domain, "note")])

\* C4 as stated: convert_domain_to_system sends alias = name, description,
\* ownerId = owner.id (absent, None, without an owner) and note, and returns
\* the identifier at data.systemCreate.system.id of the response.
C4_SendsVariablesAndReturnsId ==
    (call.fn = "convert_domain_to_system" /\ call.raised = "none") =>
        /\ call.variables = DomainVariablesAsStated(call.arg)
        /\ call.returned = call.reply.json.d.data.d.systemCreate.d.system.d.id

\* C4 amended: convert_domain_to_system sends alias = name, description,
\* ownerId = owner.id (absent, None, without an owner) and note; it prints
\* the identifier at data.systemCreate.system.id of the response and returns
\* nothing (None).
C4_SendsVariablesAndPrintsId ==
    /\ SystemVariables(Legacy) = Ok(DomainVariablesAsStated(Legacy))
    /\ (call.fn = "convert_domain_to_system" /\ call.sent) =>
        /\ call.variables = DomainVariablesAsStated(call.arg)
        /\ LastMutation = [query |-> OL_SYSTEM_MUTATION, variables |-> call.variables]
        /\ call.arg = Payments =>
               call.variables = Dict([alias |-> Str("Payments"), description |-> Str("d"),
                                      ownerId |-> Str("T1"), note |-> Str("n")])
        /\ call.raised = "none" =>
               /\ output[Len(output)] =
                      <<"Domain ", call.arg.d.name, " converted to system with ID ",
                        call.reply.json.d.data.d.systemCreate.d.system.d.id>>
               /\ call.returned = None

\* the Payments domain was converted and its new id printed
C4_Witness ==
    /\ call.fn = "convert_domain_to_system"
    /\ call.arg = Payments
    /\ call.raised = "none"
    /\ call.variables.d.ownerId = Str("T1")
    /\ output[Len(output)] =
           <<"Domain ", Str("Payments"), " converted to system with ID ", Str("id-1")>>

----------------------------------------------------------------------------
(* C5 *)

\* the record has a description: the field is there and holds one
HasDescription(entity) ==
    "description" \in DOMAIN entity.d /\ entity.d.description # None

\* C5 as stated: create_service sends alias = "SEARCH-" + name, description =
\* the record's description and "" when the record has none, ownerInput =
\* {id: owner.id} when the record has an owner and null when the owner is
\* missing or empty.
C5_DescriptionEmptyWhenNone ==
    (call.fn = "create_service" /\ call.sent) =>
        /\ call.variables.d.alias = Str("SEARCH-" \o call.arg.d.name.s)
        /\ call.variables.d.description =
               (IF HasDescription(call.arg) THEN call.arg.d.description ELSE Str(""))
        /\ call.variables.d.ownerInput =
               (IF HasOwner(call.arg) THEN Dict([id |-> call.arg.d.owner.d.id]) ELSE None)

\* C5 amended: create_service sends alias = "SEARCH-" + name, description =
\* the record's description, "" when the record has no description field and
\* null when the field is there and null, ownerInput = {id: owner.id} when
\* the record has an owner and null when the owner is missing, null or
\* empty; a missing or empty owner is never an error.
C5_ServiceVariables ==
    /\ ServiceVariables(Legacy) =
           Ok(Dict([alias |-> Str("SEARCH-Legacy"), description |-> Str(""),
                    ownerInput |-> None]))
    /\ (call.fn = "create_service") =>
        /\ ~HasOwner(call.arg) => (call.sent /\ call.variables.d.ownerInput = None)
        /\ call.sent =>
            /\ call.variables.d.alias = Str("SEARCH-" \o call.arg.d.name.s)
            /\ call.variables.d.description =
                   (IF "description" \in DOMAIN call.arg.d
                    THEN call.arg.d.description ELSE Str(""))
            /\ HasOwner(call.arg) =>
                   call.variables.d.ownerInput = Dict([id |-> call.arg.d.owner.d.id])
            /\ DOMAIN call.variables.d = {"alias", "description", "ownerInput"}
            /\ LastMutation =
                   [query |-> OL_SERVICE_MUTATION, variables |-> call.variables]

\* in one run the Search system, whose description is null, was sent with a
\* null description, the Checkout system, which has no description field,
\* with "", and Payments with its owner's id
C5_Witness ==
    /\ call.fn = "create_service"
    /\ call.arg = Search
    /\ call.variables = Dict([alias |-> Str("SEARCH-Search"), description |-> None,
                              ownerInput |-> None])
    /\ \E i \in 1..Len(requests) :
         requests[i] = [query |-> OL_SERVICE_MUTATION,
                        variables |-> Dict([alias |-> Str("SEARCH-Checkout"),
                                            description |-> Str(""),
                                            ownerInput |-> None])]
    /\ \E i \in 1..Len(requests) :
         requests[i] = [query |-> OL_SERVICE_MUTATION,
                        variables |-> Dict([alias |-> Str("SEARCH-Payments"),
                                            description |-> Str("d"),
                                            ownerInput |-> Dict([id |-> Str("T1")])])]

----------------------------------------------------------------------------
(* C6 *)

\* the exchanges of this run whose mutation the server accepted
AcceptedInRun ==
    SelectSeq(Exchanges, LAMBDA x :
        /\ x.request.query \in {OL_SERVICE_MUTATION, OL_SYSTEM_MUTATION}
        /\ Accepted(x.request.query, x.reply))

\* a systemCreate response with HTTP status 200 and no system id in it
LacksSystemId(i) ==
    /\ requests[i].query = OL_SYSTEM_MUTATION
    /\ Received(replies[i])
    /\ replies[i].status_code = 200
    /\ ~Accepted(OL_SYSTEM_MUTATION, replies[i])

\* the error a 200 response without the id raises: json() fails on a body
\* that is no JSON, the subscripts of line 301 on a document without `data`
\* (KeyError) or with a null payload (TypeError)
ErrorOfShape(reply) ==
    IF reply.json = NotJson THEN "JSONDecodeError"
    ELSE IF "data" \notin DOMAIN reply.json.d THEN "KeyError"
    ELSE "TypeError"

\* C6: in convert_domains_to_systems a 200 response without
\* data.systemCreate.system.id raises an error that ends the run: it answers
\* the last request of the run (no creation mutation and no page request
\* follows it, and the records after the failing one get no mutation), the
\* run has sent nothing but the domains query and systemCreate, and the
\* server still holds, as its newest entities, one system for every earlier
\* record of the run.
C6_MalformedMutationAborts ==
    \A i \in 1..Len(requests) :
        LacksSystemId(i) =>
            LET k == Len(Mutations(requests)) - 1
            IN /\ i = Len(requests)
               /\ pc = "exit"
               /\ exc = ErrorOfShape(replies[i])
               /\ \A j \in 1..Len(requests) :
                    requests[j].query \in {OL_DOMAINS_QUERY, OL_SYSTEM_MUTATION}
               /\ Len(AcceptedInRun) = k
               /\ Len(created) >= k
               /\ \A j \in 1..k :
                    /\ created[Len(created) - k + j].mutation = OL_SYSTEM_MUTATION
                    /\ created[Len(created) - k + j].input =
                           SystemVariables(catalog[j]).value

\* the second domain was rejected: one system stays created, a record and a
\* page were never reached
C6_Witness ==
    /\ Flow = "convert_domains_to_systems"
    /\ Len(catalog) = 3 /\ page_size = 2
    /\ pc = "exit"
    /\ exc = "TypeError"
    /\ Len(PageExchanges) = 1
    /\ Len(Mutations(requests)) = 2
    /\ LacksSystemId(Len(requests))
    /\ Len(created) = 1
    /\ created[1].input = SystemVariables(catalog[1]).value

----------------------------------------------------------------------------
(* C7 *)

\* C7 as stated: choice 5 with a path that names no file prints the
\* file-not-found message and returns normally, with no network request.
C7_MissingSnapshotIsReported ==
    (pc = "exit" /\ Flow = "update_systems_with_services"
        /\ call.arg \notin DOMAIN files) =>
        /\ exc = "none"
        /\ \E i \in 1..Len(output) :
             output[i] = <<"File " \o call.arg \o " not found. Please try again.">>
        /\ requests = <<>>

----------------------------------------------------------------------------
(* C8 *)

\* one creation mutation per catalog record, in server order
ExpectedMutations(fn) ==
    [i \in 1..Len(catalog) |->
        [query |-> FlowMutation(fn), variables |-> ConverterVariables(fn, catalog[i]).value]]

\* the number of creation mutations among the first n requests
MutationsBefore(n) == Len(Mutations(SubSeq(requests, 1, n)))

\* the index in `requests` of every page request, in order
PageRequestIndexes ==
    SelectSeq([i \in 1..Len(requests) |-> i],
              LAMBDA i : requests[i].query \in {OL_SYSTEMS_QUERY, OL_DOMAINS_QUERY})

\* C8: a conversion issues its creation mutations one per fetched record in
\* server order, every record of page k before page k+1 is requested; a run
\* that ends normally has issued exactly one per record; and a second normal
\* run of the same conversion issues the same mutations again, the server
\* ending with every accepted entity twice.
C8_OneMutationPerRecordEveryRun ==
    (Flow \in ConvertFlows) =>
        LET ms == Mutations(requests)
            ix == PageRequestIndexes
        IN /\ Len(ms) <= Len(catalog)
           /\ ms = SubSeq(ExpectedMutations(Flow), 1, Len(ms))
           /\ \A k \in 1..Len(ix) :
                MutationsBefore(ix[k] - 1) = Min((k - 1) * page_size, Len(catalog))
           /\ EndedNormally => ms = ExpectedMutations(Flow)
           /\ (EndedNormally /\ rerun /\ first_run.choice = choice) =>
                /\ ms = first_run.mutations
                /\ Flow = "convert_domains_to_systems" =>
                     [i \in 1..Len(created) |-> created[i].input]
                        = [i \in 1..Len(ms) |-> ms[i].variables]
                          \o [i \in 1..Len(ms) |-> ms[i].variables]

\* the same three domains were converted by two runs: six systems exist
C8_Witness ==
    /\ EndedNormally
    /\ rerun
    /\ choice = "4" /\ first_run.choice = "4"
    /\ Len(catalog) = 3 /\ page_size = 2
    /\ Len(created) = 6
    /\ created[1].input = created[4].input
    /\ created[1].id # created[4].id

----------------------------------------------------------------------------
(* C9 *)

DefinedChoices == {"1", "2", "3", "4", "5"}

Prompts == SelectSeq(output, LAMBDA l : l = <<"Enter your choice (1/2/3/4): ">>)

\* C9: once main has read the choice: for an input that is no defined option
\* the run is over, its last line is the invalid-choice message, no request
\* was issued, no file written and no flow called; for a defined option
\* exactly the function of that option was called, once, it alone issues the
\* requests, and the menu prompt was shown once.
C9_DispatchOnce ==
    (pc # "start") =>
        /\ Len(Prompts) = 1
        /\ choice \notin DefinedChoices =>
             /\ EndedNormally
             /\ output[Len(output)] = InvalidChoice
             /\ requests = <<>>
             /\ files = FilesAtStart
             /\ invoked = <<>>
        /\ choice = "1" =>
             /\ invoked = <<"fetch_and_save_systems">>
             /\ \A i \in 1..Len(requests) : requests[i].query = OL_SYSTEMS_QUERY
        /\ choice = "2" =>
             /\ invoked = <<"convert_systems_to_services">>
             /\ \A i \in 1..Len(requests) :
                  requests[i].query \in {OL_SYSTEMS_QUERY, OL_SERVICE_MUTATION}
        /\ choice = "3" =>
             /\ invoked = <<"fetch_and_save_domains">>
             /\ \A i \in 1..Len(requests) : requests[i].query = OL_DOMAINS_QUERY
        /\ choice = "4" =>
             /\ invoked = <<"convert_domains_to_systems">>
             /\ \A i \in 1..Len(requests) :
                  requests[i].query \in {OL_DOMAINS_QUERY, OL_SYSTEM_MUTATION}
        /\ choice = "5" => invoked = <<"update_systems_with_services">>
        /\ choice \in {"2", "4", "5"} => files = FilesAtStart
        /\ choice \in DefinedChoices => output[Len(output)] # InvalidChoice

\* "6" was entered in a second run: the message, and nothing else happened
C9_Witness ==
    /\ rerun
    /\ choice = "6"
    /\ pc = "exit"
    /\ output = Append(MenuLines, InvalidChoice)
    /\ requests = <<>>
    /\ files # <<>>
    /\ files = first_run.files

----------------------------------------------------------------------------
(* C10 *)

\* C10: in fetch_and_save_systems / fetch_and_save_domains the files differ
\* from what the run found only once the run has ended normally, the last
\* response saying hasNextPage = false; then exactly one file differs and it
\* holds every page.  A run that ended in an error, and a run still
\* paginating, has left every file as it found it.
C10_SnapshotOnlyAfterLastPage ==
    (Flow \in FetchFlows) =>
        /\ (pc # "exit" \/ exc # "none") => files = FilesAtStart
        /\ EndedNormally =>
             /\ SaysLastPage(PageExchanges[Len(PageExchanges)])
             /\ \E d \in Dates :
                  files = save_to_file(FilesAtStart,
                                       SnapshotName(Collection(FlowQuery(Flow)), d),
                                       ConcatNodes(PageExchanges))

\* a second fetch failed on its second page: the first run's snapshot is intact
C10_Witness ==
    /\ rerun
    /\ Flow = "fetch_and_save_systems"
    /\ first_run.choice = "1"
    /\ pc = "exit"
    /\ exc = "Exception"
    /\ Len(replies) = 2
    /\ data # <<>>
    /\ files = first_run.files
    /\ \E d \in Dates : files = [f \in {SnapshotName("systems", d)} |-> List(catalog)]

====
